---- MODULE Spec2Model ----
(***************************************************************************)
(* Model of data/process_data.py: the ETL pipeline                         *)
(*     load_data -> clean_data -> save_data, sequenced by main.            *)
(*                                                                         *)
(* Strings are sequences of one-character strings, so that str.split,      *)
(* x[:-2], x[-1] and int() are computed character by character.            *)
(* A DataFrame is a record [columns, rows]; a row is [idx, vals] where idx *)
(* is the pandas index label of the row and vals is aligned with columns.  *)
(* A function that raises returns [ok |-> FALSE, err |-> <kind>].          *)
(***************************************************************************)
EXTENDS Integers, Sequences, FiniteSets, TLC

\* ---------------------------------------------------------------- bounds

\* Largest number of data rows in each input file.
MaxRows == 2
\* Largest value of len(sys.argv) tried.
MaxArgv == 6

\* ------------------------------------------------------------- constants

\* main runs the pipeline only when len(sys.argv) == 5.
ExpectedArgc == 5

\* Column names of the two input files.
ID == <<"i", "d">>
MESSAGE == <<"m", "e", "s", "s", "a", "g", "e">>
CATEGORIES == <<"c", "a", "t", "e", "g", "o", "r", "i", "e", "s">>

\* The delimiter of str.split(';').
SEP == ";"

\* What str.split(expand=True) pads short rows with (Python's None).  No
\* string over one-character elements equals it.
None == <<"None">>

\* ------------------------------------------------------ input universes

Ids == {1, 2}
Texts == {<<"h">>}

\* The `categories` strings the inputs are drawn from: one or two name-value
\* tokens; values 0, 1, the non-binary 2 and the non-digit x; the same value
\* under different names; the same name twice.
CategoryStrings ==
    { <<"a", "-", "1">>,                          \* a-1
      <<"b", "-", "1">>,                          \* b-1
      <<"a", "-", "2">>,                          \* a-2
      <<"a", "-", "x">>,                          \* a-x
      <<"a", "-", "1", ";", "b", "-", "0">>,      \* a-1;b-0
      <<"b", "-", "1", ";", "a", "-", "0">>,      \* b-1;a-0
      <<"a", "-", "1", ";", "b", "-", "2">>,      \* a-1;b-2
      <<"a", "-", "1", ";", "a", "-", "0">> }     \* a-1;a-0

RECURSIVE SeqsUpTo(_, _)
SeqsUpTo(S, n) ==
    IF n = 0 THEN {<<>>}
    ELSE LET shorter == SeqsUpTo(S, n - 1)
         IN  shorter \cup {Append(s, x) : s \in shorter, x \in S}

\* A csv file: its header and its data lines, or Missing (no such file).
Missing == [header |-> <<>>, lines |-> <<>>, exists |-> FALSE]
CsvFile(header, lines) == [header |-> header, lines |-> lines, exists |-> TRUE]

MessagesFiles ==
    {Missing} \cup
    {CsvFile(<<ID, MESSAGE>>, ls) : ls \in SeqsUpTo({<<i, t>> : i \in Ids, t \in Texts}, MaxRows)}
CategoriesFiles ==
    {Missing} \cup
    {CsvFile(<<ID, CATEGORIES>>, ls) :
        ls \in SeqsUpTo({<<i, c>> : i \in Ids, c \in CategoryStrings}, MaxRows)}

\* ------------------------------------------------------------- helpers

Raise(kind) == [ok |-> FALSE, err |-> kind]
Return(frame) == [ok |-> TRUE, df |-> frame]

DataFrame(columns, rows) == [columns |-> columns, rows |-> rows]

\* Position of the first column called name, 0 when there is none.
ColPos(columns, name) ==
    IF \E i \in 1..Len(columns) : columns[i] = name
    THEN CHOOSE i \in 1..Len(columns) :
            columns[i] = name /\ \A j \in 1..(i - 1) : columns[j] # name
    ELSE 0

\* s without its k-th element.
DropAt(s, k) == [i \in 1..(Len(s) - 1) |-> IF i < k THEN s[i] ELSE s[i + 1]]

RECURSIVE Concat(_)
Concat(ss) == IF ss = <<>> THEN <<>> ELSE Head(ss) \o Concat(Tail(ss))

\* A fresh RangeIndex 0..n-1 over the given value rows.
RangeIndexed(valrows) == [i \in 1..Len(valrows) |-> [idx |-> i - 1, vals |-> valrows[i]]]

\* ----------------------------------------------------------- load_data

\* pd.read_csv: the header becomes the columns, the lines the rows under a
\* RangeIndex; a missing file raises.
read_csv(file) ==
    IF ~file.exists THEN Raise("FileNotFoundError")
    ELSE Return(DataFrame(file.header, RangeIndexed(file.lines)))

\* Mutant of MatchRows: a lookup that stops at the first matching right row.
MatchRows_first(lvals, lk, right, rk) ==
    LET hits == {j \in 1..Len(right.rows) : right.rows[j].vals[rk] = lvals[lk]}
        j1 == CHOOSE j \in hits : \A h \in hits : j <= h
    IN  IF hits = {} THEN <<>> ELSE <<lvals \o DropAt(right.rows[j1].vals, rk)>>

\* Mutant of MatchRows: how='left', a left row without a match is kept, its
\* right-hand columns empty.
MatchRows_left(lvals, lk, right, rk) ==
    LET hit(j) == right.rows[j].vals[rk] = lvals[lk]
        one(j) == IF hit(j) THEN <<lvals \o DropAt(right.rows[j].vals, rk)>> ELSE <<>>
        found == Concat([j \in 1..Len(right.rows) |-> one(j)])
    IN  IF found = <<>>
        THEN <<lvals \o [k \in 1..(Len(right.columns) - 1) |-> None]>>
        ELSE found

\* The rows of right matching one left row, each joined to it: the left
\* values, then the right values without the key.
MatchRows(lvals, lk, right, rk) ==
    LET hit(j) == right.rows[j].vals[rk] = lvals[lk]
        one(j) == IF hit(j) THEN <<lvals \o DropAt(right.rows[j].vals, rk)>> ELSE <<>>
    IN  Concat([j \in 1..Len(right.rows) |-> one(j)])

\* pd.merge(left, right, how='inner', on='id'): the rows in the order of the
\* left keys, under a fresh RangeIndex; the key once, then the other columns
\* of left, then those of right.
merge(left, right) ==
    LET lk == ColPos(left.columns, ID)
        rk == ColPos(right.columns, ID)
    IN  IF lk = 0 \/ rk = 0 THEN Raise("KeyError")
        ELSE Return(DataFrame(
                left.columns \o DropAt(right.columns, rk),
                RangeIndexed(Concat([i \in 1..Len(left.rows) |->
                    MatchRows(left.rows[i].vals, lk, right, rk)]))))

load_data(messages_file, categories_file) ==
    LET m == read_csv(messages_file)
        c == read_csv(categories_file)
    IN  IF ~m.ok THEN m
        ELSE IF ~c.ok THEN c
        ELSE merge(m.df, c.df)

\* ---------------------------------------------------------- clean_data

\* Python's s.split(';'): the pieces between the delimiters, so a string
\* without a delimiter (the empty string too) is one piece.
RECURSIVE str_split(_)
str_split(s) ==
    IF \A i \in 1..Len(s) : s[i] # SEP THEN <<s>>
    ELSE LET i == CHOOSE i \in 1..Len(s) : s[i] = SEP /\ \A j \in 1..(i - 1) : s[j] # SEP
         IN  <<SubSeq(s, 1, i - 1)>> \o str_split(SubSeq(s, i + 1, Len(s)))

Widest(tokrows) ==
    IF tokrows = <<>> THEN 0
    ELSE CHOOSE w \in {Len(tokrows[i]) : i \in 1..Len(tokrows)} :
            \A i \in 1..Len(tokrows) : Len(tokrows[i]) <= w

\* Mutant of split_expand: short rows are padded with "0" instead of None.
split_expand_fill(values) ==
    LET tokrows == [i \in 1..Len(values) |-> str_split(values[i])]
        width == Widest(tokrows)
    IN  [i \in 1..Len(values) |->
            [k \in 1..width |-> IF k <= Len(tokrows[i]) THEN tokrows[i][k] ELSE <<"0">>]]

\* Series.str.split(';', expand=True): one cell row per value, as wide as
\* the value with the most pieces; shorter rows are padded with None.
split_expand(values) ==
    LET tokrows == [i \in 1..Len(values) |-> str_split(values[i])]
        width == Widest(tokrows)
    IN  [i \in 1..Len(values) |->
            [k \in 1..width |-> IF k <= Len(tokrows[i]) THEN tokrows[i][k] ELSE None]]

\* Mutant of strip_value: x[:-1], only the value digit is stripped.
strip_value_one(x) == SubSeq(x, 1, Len(x) - 1)

\* lambda x: x[:-2]
strip_value(x) == SubSeq(x, 1, Len(x) - 2)

\* lambda x: x[-1]
last_char(x) == x[Len(x)]

\* int() of one character.
DigitValue ==
    [ch \in {"0", "1", "2", "3", "4", "5", "6", "7", "8", "9"} |->
        CASE ch = "0" -> 0 [] ch = "1" -> 1 [] ch = "2" -> 2 [] ch = "3" -> 3
          [] ch = "4" -> 4 [] ch = "5" -> 5 [] ch = "6" -> 6 [] ch = "7" -> 7
          [] ch = "8" -> 8 [] ch = "9" -> 9]
astype_int(ch) == DigitValue[ch]

\* What `categories[column].apply(lambda x: x[-1]).astype(int)` raises for
\* the column at position k, "" when it raises nothing.  A label carried by
\* several columns selects a DataFrame, whose apply hands the lambda whole
\* columns: x[-1] is then a label lookup on the RangeIndex and raises.
ColumnError(names, cells, k) ==
    IF \E j \in 1..Len(names) : j # k /\ names[j] = names[k] THEN "KeyError"
    ELSE IF \E i \in 1..Len(cells) : cells[i][k] = None THEN "TypeError"
    ELSE IF \E i \in 1..Len(cells) : cells[i][k] = <<>> THEN "IndexError"
    ELSE IF \E i \in 1..Len(cells) : last_char(cells[i][k]) \notin DOMAIN DigitValue
         THEN "ValueError"
    ELSE ""

\* Mutant of CellValue: the value clamped to 0/1.
CellValue_clamped(x) == IF astype_int(last_char(x)) = 0 THEN 0 ELSE 1

\* The converted value of one cell.
CellValue(x) == astype_int(last_char(x))

\* Mutant of drop_duplicates: keep='last'.
drop_duplicates_last(frame) ==
    LET keep(i) ==
            \A j \in (i + 1)..Len(frame.rows) : frame.rows[j].vals # frame.rows[i].vals
    IN  DataFrame(frame.columns,
            Concat([i \in 1..Len(frame.rows) |->
                IF keep(i) THEN <<frame.rows[i]>> ELSE <<>>]))

\* DataFrame.drop_duplicates(): a row goes when an earlier row has the same
\* values in all columns; the kept rows keep their order and index labels.
drop_duplicates(frame) ==
    LET keep(i) == \A j \in 1..(i - 1) : frame.rows[j].vals # frame.rows[i].vals
    IN  DataFrame(frame.columns,
            Concat([i \in 1..Len(frame.rows) |->
                IF keep(i) THEN <<frame.rows[i]>> ELSE <<>>]))

\* df.drop(columns=['categories']) followed by pd.concat([df, categories],
\* axis=1): the remaining columns, then the new ones, row by row.
ReplaceCategories(frame, cp, names, cells) ==
    DataFrame(DropAt(frame.columns, cp) \o names,
        [i \in 1..Len(frame.rows) |->
            [idx |-> frame.rows[i].idx,
             vals |-> DropAt(frame.rows[i].vals, cp) \o
                      [k \in 1..Len(names) |-> CellValue(cells[i][k])]]])

\* Lines 45-57: the frame with `categories` replaced by the new columns.
expand_categories(frame) ==
    LET cp == ColPos(frame.columns, CATEGORIES)
        ncat == Cardinality({i \in 1..Len(frame.columns) : frame.columns[i] = CATEGORIES})
        cells == split_expand([i \in 1..Len(frame.rows) |-> frame.rows[i].vals[cp]])
        names == [k \in 1..Len(cells[1]) |-> strip_value(cells[1][k])]
        bad == {k \in 1..Len(names) : ColumnError(names, cells, k) # ""}
        first == CHOOSE k \in bad : \A j \in bad : k <= j
    IN  IF ncat # 1 THEN Raise("AttributeError")
        ELSE IF frame.rows = <<>> THEN Raise("IndexError")
        ELSE IF \E k \in 1..Len(cells[1]) : cells[1][k] = None THEN Raise("TypeError")
        ELSE IF bad # {} THEN Raise(ColumnError(names, cells, first))
        ELSE Return(ReplaceCategories(frame, cp, names, cells))

\* Mutant of clean_data: the duplicates are not removed.
clean_data_keep_duplicates(frame) == expand_categories(frame)

\* Lines 59-62.
clean_data(frame) ==
    LET e == expand_categories(frame)
    IN  IF e.ok THEN Return(drop_duplicates(e.df)) ELSE e

\* ----------------------------------------------------------- save_data

TableNames == {"t1", "t2"}

NoTable == [exists |-> FALSE, columns |-> <<>>, rows |-> <<>>]
\* What an earlier run left in the database.
OldTable == [exists |-> TRUE, columns |-> <<ID, MESSAGE, <<"a">>>>,
             rows |-> << <<1, <<"h">>, 1>>, <<7, <<"o">>, 0>> >>]

\* Mutant of to_sql: if_exists='append'.
to_sql_append(frame, db, tablename) ==
    [db EXCEPT ![tablename] =
        [exists |-> TRUE, columns |-> frame.columns,
         rows |-> db[tablename].rows \o
                  [i \in 1..Len(frame.rows) |-> frame.rows[i].vals]]]

\* DataFrame.to_sql(tablename, engine, index=False, if_exists='replace'):
\* the table is dropped and created anew from the frame's columns and rows;
\* the index labels are not written.
to_sql(frame, db, tablename) ==
    [db EXCEPT ![tablename] =
        [exists |-> TRUE, columns |-> frame.columns,
         rows |-> [i \in 1..Len(frame.rows) |-> frame.rows[i].vals]]]

save_data(frame, db, tablename) == to_sql(frame, db, tablename)

\* ------------------------------------------------------------------ main

VARIABLES
    argc,             \* len(sys.argv)
    tablename,        \* sys.argv[4]
    messages_file,    \* the file at sys.argv[1], as load_data read it
    categories_file,  \* the file at sys.argv[2], as load_data read it
    df,               \* main's local df
    store,            \* the database at sys.argv[3]: table name -> table
    store0,           \* history: the database as main found it
    calls,            \* the stages invoked so far, in order
    out,              \* the lines printed so far
    err,              \* the exception that ended main, "" when none
    pc                \* where main is

vars == <<argc, tablename, messages_file, categories_file, df, store, store0, calls, out,
          err, pc>>

NoFrame == DataFrame(<<>>, <<>>)

\* The database before the run: empty, or holding tables of earlier runs.
InitialStores == {[n \in TableNames |-> NoTable], [n \in TableNames |-> OldTable]}

Init ==
    /\ argc \in 1..MaxArgv
    /\ tablename \in TableNames
    /\ store \in InitialStores
    /\ store0 = store
    /\ messages_file = Missing
    /\ categories_file = Missing
    /\ df = NoFrame
    /\ calls = <<>>
    /\ out = <<>>
    /\ err = ""
    /\ pc = "start"

\* Mutant of ArgsOk: extra arguments are tolerated.
ArgsOk_atleast(n) == n >= ExpectedArgc

\* The test of line 84.
ArgsOk(n) == n = ExpectedArgc

\* Mutant of Propagate: the exception is swallowed and main carries on.
Propagate_swallow(r, nextpc) == nextpc

\* No stage catches anything: an exception ends main where it is raised.
Propagate(r, nextpc) == IF r.ok THEN nextpc ELSE "raised"

\* The usage text of lines 102-107.
USAGE == "Please provide the filepaths of the messages and categories datasets ..."

\* The else branch: the usage message, nothing else.
Usage ==
    /\ pc = "start"
    /\ ~ArgsOk(argc)
    /\ out' = Append(out, USAGE)
    /\ pc' = "done"
    /\ UNCHANGED <<argc, tablename, messages_file, categories_file, df, store, store0, calls,
                   err>>

\* Lines 88-90: the files at the two paths are whatever the caller put
\* there; messages_file and categories_file record what was read.
Load ==
    /\ pc = "start"
    /\ ArgsOk(argc)
    /\ \E mf \in MessagesFiles, cf \in CategoriesFiles :
        LET r == load_data(mf, cf)
        IN  /\ messages_file' = mf
            /\ categories_file' = cf
            /\ out' = Append(out, "Loading data...")
            /\ calls' = Append(calls, "load_data")
            /\ pc' = Propagate(r, "loaded")
            /\ df' = IF r.ok THEN r.df ELSE df
            /\ err' = IF r.ok THEN err ELSE r.err
    /\ UNCHANGED <<argc, tablename, store, store0>>

\* Lines 92-93.
Clean ==
    /\ pc = "loaded"
    /\ LET r == clean_data(df)
       IN  /\ out' = Append(out, "Cleaning data...")
           /\ calls' = Append(calls, "clean_data")
           /\ pc' = Propagate(r, "cleaned")
           /\ df' = IF r.ok THEN r.df ELSE df
           /\ err' = IF r.ok THEN err ELSE r.err
    /\ UNCHANGED <<argc, tablename, messages_file, categories_file, store, store0>>

\* Lines 95-99.
Save ==
    /\ pc = "cleaned"
    /\ out' = out \o <<"Saving data...", "TABLENAME", "Cleaned data saved to database!">>
    /\ calls' = Append(calls, "save_data")
    /\ store' = save_data(df, store, tablename)
    /\ pc' = "done"
    /\ UNCHANGED <<argc, tablename, messages_file, categories_file, df, store0, err>>

Next == Usage \/ Load \/ Clean \/ Save

Spec == Init /\ [][Next]_vars

\* ------------------------------------------------------------ properties

LOAD == "load_data"
CLEAN == "clean_data"
SAVE == "save_data"

\* The frame load_data returned in this run (defined once load_data has
\* returned normally).
Loaded == load_data(messages_file, categories_file)
Merged == Loaded.df
CatPos == ColPos(Merged.columns, CATEGORIES)

\* clean_data has returned normally and df is its result.
AfterClean == pc = "cleaned"
\* save_data has returned.
AfterSave == pc = "done" /\ Len(calls) = 3

\* How many lines of a csv file carry the id v.
Multiplicity(file, v) ==
    Cardinality({i \in 1..Len(file.lines) : file.lines[i][ColPos(file.header, ID)] = v})
IdsOf(file) == {file.lines[i][ColPos(file.header, ID)] : i \in 1..Len(file.lines)}
UniqueIds(file) == \A v \in IdsOf(file) : Multiplicity(file, v) = 1
Produced(v) ==
    Cardinality({i \in 1..Len(df.rows) : df.rows[i].vals[ColPos(df.columns, ID)] = v})
Min(a, b) == IF a <= b THEN a ELSE b

\* C1: after load_data, every id occurs in the merged frame as often as the
\* product of its multiplicities in the messages file and in the categories
\* file; so an id in a merged row is in both files and an id missing from
\* either file is in no merged row.
C1_InnerJoin ==
    pc = "loaded" =>
        \A v \in IdsOf(messages_file) \cup IdsOf(categories_file)
                 \cup {df.rows[i].vals[ColPos(df.columns, ID)] : i \in 1..Len(df.rows)} :
            Produced(v) = Multiplicity(messages_file, v) * Multiplicity(categories_file, v)

\* An id twice in one file and once in the other, and an id of one file only.
C1_Witness ==
    /\ pc = "loaded"
    /\ \E v \in IdsOf(messages_file) : Produced(v) >= 2
    /\ \E w \in IdsOf(messages_file) \cup IdsOf(categories_file) : Produced(w) = 0

\* C2 as stated: the merged frame never has more rows than the smaller input.
C2_Original ==
    pc = "loaded" =>
        Len(df.rows) <= Min(Len(messages_file.lines), Len(categories_file.lines))

\* C2 amended: the merged frame has at most as many rows as the smaller
\* input when no id occurs twice in either file, and never more than the
\* product of the two row counts.
C2_RowCount ==
    pc = "loaded" =>
        /\ (UniqueIds(messages_file) /\ UniqueIds(categories_file)) =>
               Len(df.rows) <= Min(Len(messages_file.lines), Len(categories_file.lines))
        /\ Len(df.rows) <= Len(messages_file.lines) * Len(categories_file.lines)

\* Two files of two rows with unique ids, fully matched.
C2_Witness ==
    /\ pc = "loaded"
    /\ UniqueIds(messages_file) /\ UniqueIds(categories_file)
    /\ Len(messages_file.lines) = 2 /\ Len(categories_file.lines) = 2
    /\ Len(df.rows) = 2

\* The tokens of the `categories` value of every row of the merged frame M,
\* by row position.
TokensOf(M) ==
    [i \in 1..Len(M.rows) |-> str_split(M.rows[i].vals[ColPos(M.columns, CATEGORIES)])]
\* The number of columns clean_data leaves untouched.
NKept == Len(Merged.columns) - 1

\* C3: after clean_data, there is one category column per token of the first
\* merged row, named by that token without its last two characters; no
\* column is called `categories`; the other input columns come first, in
\* their order and with their values.
C3_Columns ==
    AfterClean =>
        LET M == Merged
            cp == ColPos(M.columns, CATEGORIES)
            first == str_split(M.rows[1].vals[cp])
            kept == DropAt(M.columns, cp)
            n == Len(kept)
        IN  /\ Len(df.columns) = n + Len(first)
            /\ \A k \in 1..Len(first) :
                   df.columns[n + k] = SubSeq(first[k], 1, Len(first[k]) - 2)
            /\ \A c \in 1..Len(df.columns) : df.columns[c] # CATEGORIES
            /\ \A c \in 1..n : df.columns[c] = kept[c]
            /\ \A r \in 1..Len(df.rows) :
                   /\ Len(df.rows[r].vals) = Len(df.columns)
                   /\ \A c \in 1..n :
                          df.rows[r].vals[c] = DropAt(M.rows[df.rows[r].idx + 1].vals, cp)[c]

\* Two category columns and two surviving rows.
C3_Witness ==
    /\ AfterClean
    /\ Len(df.columns) = NKept + 2
    /\ Len(df.rows) >= 2

ExpandedVals(M) ==
    LET toks == TokensOf(M)
        cp == ColPos(M.columns, CATEGORIES)
    IN  [i \in 1..Len(M.rows) |->
            DropAt(M.rows[i].vals, cp) \o
            [k \in 1..Len(toks[i]) |-> DigitValue[toks[i][k][Len(toks[i][k])]]]]

\* C5: after clean_data, no two rows are equal; the rows are exactly the
\* first occurrences among the expanded rows, in their original order.
C5_Deduplicated ==
    AfterClean =>
        LET E == ExpandedVals(Merged)
            firsts == {i \in 1..Len(E) : \A j \in 1..(i - 1) : E[j] # E[i]}
        IN  /\ \A r1, r2 \in 1..Len(df.rows) :
                   r1 # r2 => df.rows[r1].vals # df.rows[r2].vals
            /\ {df.rows[r].idx + 1 : r \in 1..Len(df.rows)} = firsts
            /\ \A r \in 1..Len(df.rows) : df.rows[r].vals = E[df.rows[r].idx + 1]
            /\ \A r1, r2 \in 1..Len(df.rows) :
                   r1 < r2 => df.rows[r1].idx < df.rows[r2].idx

\* Rows were dropped as duplicates and at least two rows survive.
C5_Witness ==
    /\ AfterClean
    /\ Len(df.rows) >= 2
    /\ Len(df.rows) < Len(Merged.rows)

\* C6: after save_data, the table called tablename holds the columns and the
\* rows of df and nothing else (no index column, no row of the table it
\* replaced); every other table is as it was.
C6_Replace ==
    AfterSave =>
        /\ store[tablename] =
               [exists |-> TRUE, columns |-> df.columns,
                rows |-> [i \in 1..Len(df.rows) |-> df.rows[i].vals]]
        /\ \A n \in TableNames \ {tablename} : store[n] = store0[n]

\* A table of that name, and another table, were there before.
C6_Witness ==
    /\ AfterSave
    /\ store0[tablename] = OldTable
    /\ \E n \in TableNames \ {tablename} : store[n] = OldTable
    /\ Len(df.rows) >= 2

\* C7: with len(sys.argv) other than 5, main prints the usage text and
\* nothing else, invokes no stage, leaves the database alone and raises
\* nothing.
C7_UsageOnly ==
    (argc # ExpectedArgc /\ pc # "start") =>
        /\ pc = "done"
        /\ out = <<USAGE>>
        /\ calls = <<>>
        /\ store = store0
        /\ err = ""
        /\ df = NoFrame

\* Three positional arguments, a database with tables in it.
C7_Witness ==
    /\ argc = ExpectedArgc - 1
    /\ pc = "done"
    /\ \E n \in TableNames : store0[n] = OldTable

\* C8: with len(sys.argv) = 5 the stages are invoked in the order load_data,
\* clean_data, save_data, each at most once and only after the one before
\* returned normally; when one raises, main ends with that exception,
\* save_data is not invoked and the database is as it was.
C8_Sequence ==
    argc = ExpectedArgc =>
        LET l == Loaded
        IN  /\ calls \in {<<>>, <<LOAD>>, <<LOAD, CLEAN>>, <<LOAD, CLEAN, SAVE>>}
            /\ Len(calls) >= 2 => l.ok
            /\ Len(calls) = 3 => (l.ok /\ clean_data(l.df).ok)
            /\ pc = "raised" =>
                   /\ err # ""
                   /\ \A i \in 1..Len(calls) : calls[i] # SAVE
                   /\ store = store0
            /\ Len(calls) < 3 => store = store0

\* clean_data raised over a database that held tables.
C8_Witness ==
    /\ argc = ExpectedArgc
    /\ pc = "raised"
    /\ calls = <<LOAD, CLEAN>>
    /\ \E n \in TableNames : store0[n] = OldTable

\* The number of `;`-delimited tokens of a string.
TokenCount(s) == Cardinality({i \in 1..Len(s) : s[i] = SEP}) + 1
\* The token counts of the rows of the merged frame M, by row position.
CountsOf(M) ==
    [i \in 1..Len(M.rows) |-> TokenCount(M.rows[i].vals[ColPos(M.columns, CATEGORIES)])]

\* C9: when some merged row has another number of tokens than the first
\* row, clean_data raises: main ends there, with df still the merged frame.
C9_MismatchRaises ==
    Len(calls) >= 2 =>
        LET l == Loaded
            n == CountsOf(l.df)
        IN  (l.ok /\ \E i \in 1..Len(n) : n[i] # n[1]) =>
                /\ pc = "raised"
                /\ calls = <<LOAD, CLEAN>>
                /\ df = l.df

\* clean_data raised on a frame with a row of more tokens than the first.
C9_Witness ==
    /\ pc = "raised"
    /\ calls = <<LOAD, CLEAN>>
    /\ \E i \in 1..Len(Merged.rows) : CountsOf(Merged)[i] > CountsOf(Merged)[1]

\* C10 as stated: clean_data applied to its own result returns that result.
C10_Original ==
    AfterClean =>
        /\ clean_data(df).ok
        /\ clean_data(df).df = df
        /\ drop_duplicates(df) = df

\* C10 amended: clean_data applied to its own result raises (the result has
\* no `categories` column to split); drop_duplicates applied to the result
\* returns it unchanged.
C10_DedupIdempotent ==
    AfterClean =>
        /\ ~clean_data(df).ok
        /\ drop_duplicates(df) = df

\* The result of a clean_data that removed all but one of four merged rows.
C10_Witness ==
    /\ AfterClean
    /\ Len(Merged.rows) = 4
    /\ Len(df.rows) = 1

====
